---- MODULE Spec2Model ----
(***************************************************************************)
(* Model of the expense core of pf-core (Django / DRF):                    *)
(*   - the approval coordinator of expenses/views.py (ExpenseViewSet:      *)
(*     request_delete, request_edit, approve, destroy, partial_update and  *)
(*     the inherited update), over the rows of expenses/models.py;         *)
(*   - the TOTAL-mode validation and row replacement of                    *)
(*     expenses/serializers.py (ExpenseDetailSerializer);                  *)
(*   - the allocation functions of expenses/services.py.                   *)
(* One expense is followed through its life; users are u1..u3.             *)
(***************************************************************************)
EXTENDS Integers, Sequences, FiniteSets, TLC

\* ------------------------------------------------------------------ bounds
MaxRequests == 2      \* ExpenseActionRequest rows ever created for the expense
MaxCalls == 2         \* approve calls in flight at the same time
MaxTotal == 3         \* largest total_amount_minor drawn as an input

\* --------------------------------------------------------------- constants
Users == {"u1", "u2", "u3"}
ACTION_DELETE == "delete"
ACTION_EDIT == "edit"
Actions == {ACTION_DELETE, ACTION_EDIT}
Calls == 1..MaxCalls

\* ------------------------------------------------------------------ inputs
\* One element of a `splits` list (ExpenseSplitSerializer).
Split(u, paid, owed) ==
    [user_id |-> u, paid_amount_minor |-> paid, owed_amount_minor |-> owed]

\* The `splits` lists the model submits: the shape of the repository's test
\* payload (two payers, one debtor), three payers, one payer, another pair of
\* payers, and a list whose owed side does not add up.
SplitInputs ==
    { << Split("u1", 1, 0), Split("u2", 1, 0), Split("u3", 0, 2) >>,
      << Split("u1", 1, 1), Split("u2", 1, 1), Split("u3", 1, 1) >>,
      << Split("u1", 2, 1), Split("u2", 0, 1) >>,
      << Split("u1", 1, 0), Split("u2", 1, 1) >> }

\* Request data: the keys present and their values (an absent key is what
\* data.get(key) answers None for).
Data(fields, total, description, splits) ==
    [fields |-> fields, total_amount_minor |-> total,
     description |-> description, splits |-> splits]

EmptyData == Data({}, 0, "", << >>)

RECURSIVE SumOver(_, _)
SumOver(f, S) ==
    IF S = {} THEN 0
    ELSE LET x == CHOOSE y \in S : TRUE IN f[x] + SumOver(f, S \ {x})

paid_sum(splits) ==
    SumOver([i \in DOMAIN splits |-> splits[i].paid_amount_minor], DOMAIN splits)
owed_sum(splits) ==
    SumOver([i \in DOMAIN splits |-> splits[i].owed_amount_minor], DOMAIN splits)

\* The edit payloads handed to request_edit: a description, a splits list
\* without a total (one payer, sums 2) and a total with its splits (three
\* payers, sums 3).
EditInputs ==
    { Data({"description"}, 0, "NEW", << >>),
      Data({"splits"}, 0, "", << Split("u1", 2, 1), Split("u2", 0, 1) >>),
      Data({"total_amount_minor", "splits"}, 3, "",
           << Split("u1", 1, 1), Split("u2", 1, 1), Split("u3", 1, 1) >>) }

\* The PATCH bodies of a direct partial update: those, and a total alone.
PatchInputs ==
    EditInputs \cup { Data({"total_amount_minor"}, t, "", << >>) : t \in 0..MaxTotal }

\* The POST / PUT bodies: a total and splits (description is optional and,
\* on the model, defaults to the empty string).
FullInputs ==
    { Data({"total_amount_minor", "splits"}, paid_sum(s), "", s) : s \in SplitInputs }

\* The PUT bodies: those whose paid and owed sides both add up to the total.
PutInputs ==
    { d \in FullInputs : owed_sum(d.splits) = d.total_amount_minor }

\* ------------------------------------------------------------------- state
VARIABLES
    expense,        \* the Expense row: state none/live/deleted and its fields
    payers,         \* ExpensePayer rows of the expense: user -> paid_amount_minor
    participants,   \* ExpenseParticipant rows: user -> owed_amount_minor
    requests,       \* ExpenseActionRequest rows in creation order
    approvals,      \* ExpenseActionApproval rows: per request, user -> row count
    calls,          \* approve calls in flight (between lookup and atomic block)
    applied,        \* history: per request, how often its action was applied
    settled,        \* history: per action, a request of it was completed and
                    \*          none of it has been created since
    last,           \* the handler that ran last and the response it gave
    alloc,          \* the arguments of a call of the allocation functions of
                    \* services.py / serializers.py, and what it returned
    items           \* ExpenseItem rows in creation order, each with its
                    \* ExpenseItemShare rows

vars == << expense, payers, participants, requests, approvals, calls, applied, settled, last, alloc, items >>
hist == << applied, settled >>
db == << expense, payers, participants, requests, approvals >>

\* ----------------------------------------------------------------- helpers
SumRows(rows) == SumOver(rows, DOMAIN rows)

NoRows == [u \in {} |-> 0]

Has(data, key) == key \in data.fields

\* _payer_ids: the users with a payer row of paid_amount_minor > 0.
PayerIdsOf(rows) == { u \in DOMAIN rows : rows[u] > 0 }
_payer_ids == PayerIdsOf(payers)

\* request.user.id in payers (and the IsExpensePayer permission)
IsPayer_anyRow(u) == u \in DOMAIN payers \cup DOMAIN participants

IsPayer(u) == u \in _payer_ids

Outcome(op, out) == [op |-> op, outcome |-> out]

Idle == [pc |-> "idle", user |-> "", action |-> "", req |-> 0,
         inst |-> [total_amount_minor |-> 0, description |-> ""]]

\* --------------------------------------------------------- serializer
\* ExpenseDetailSerializer.validate in TOTAL mode. inst_total is the
\* instance's total_amount_minor and has_inst says whether there is an instance.
validate(data, has_inst, inst_total, partial) ==
    IF (~partial) \/ Has(data, "splits")
    THEN /\ Has(data, "splits")
         /\ data.splits # << >>
         /\ (Has(data, "total_amount_minor") \/ has_inst)
         /\ LET effective_total == IF Has(data, "total_amount_minor")
                                   THEN data.total_amount_minor ELSE inst_total
            IN  /\ paid_sum(data.splits) = effective_total
                /\ owed_sum(data.splits) = effective_total
    ELSE TRUE

\* The fields' own validation alone: validate is not run.
is_valid_unvalidated(data, has_inst, inst_total, partial) ==
    partial \/ Has(data, "total_amount_minor")

\* is_valid: the fields' own validation (total_amount_minor is required
\* unless the serializer is partial), then validate.
is_valid(data, has_inst, inst_total, partial) ==
    /\ partial \/ Has(data, "total_amount_minor")
    /\ validate(data, has_inst, inst_total, partial)

\* Rows created from splits: one per entry whose amount is > 0.
PayingEntries(splits) == { i \in DOMAIN splits : splits[i].paid_amount_minor > 0 }
OwingEntries(splits) == { i \in DOMAIN splits : splits[i].owed_amount_minor > 0 }

\* unique_together (expense, user): two entries of one user that both make a
\* row raise IntegrityError.
RowsUnique(splits, entries) ==
    \A i, j \in entries : splits[i].user_id = splits[j].user_id => i = j

PayerRows(splits) ==
    [u \in { splits[i].user_id : i \in PayingEntries(splits) } |->
        splits[CHOOSE i \in PayingEntries(splits) : splits[i].user_id = u].paid_amount_minor]
ParticipantRows(splits) ==
    [u \in { splits[i].user_id : i \in OwingEntries(splits) } |->
        splits[CHOOSE i \in OwingEntries(splits) : splits[i].user_id = u].owed_amount_minor]

SplitsStorable(splits) ==
    RowsUnique(splits, PayingEntries(splits)) /\ RowsUnique(splits, OwingEntries(splits))

\* The Expense row after ModelSerializer.update on instance inst: the fields
\* of validated_data are set on the instance and the instance is saved whole.
SavedExpense(inst, data) ==
    [state |-> "live",
     total_amount_minor |-> IF Has(data, "total_amount_minor")
                            THEN data.total_amount_minor ELSE inst.total_amount_minor,
     description |-> IF Has(data, "description")
                     THEN data.description ELSE inst.description]

\* No call of an allocation function.
NoCall == [pc |-> "none", split_type |-> "", participants |-> << >>,
           splits_payload |-> << >>, out |-> NoRows]

\* ------------------------------------------------------------------- Init
Init ==
    /\ expense = [state |-> "none", total_amount_minor |-> 0, description |-> ""]
    /\ payers = NoRows
    /\ participants = NoRows
    /\ requests = << >>
    /\ approvals = << >>
    /\ calls = [c \in Calls |-> Idle]
    /\ applied = << >>
    /\ settled = [a \in Actions |-> FALSE]
    /\ last = Outcome("init", "")
    /\ alloc = NoCall
    /\ items = << >>

\* POST /expenses/: ExpenseDetailSerializer.create in TOTAL mode.
Create(u, data) ==
    /\ UNCHANGED << alloc, items >>
    /\ expense.state = "none"
    /\ IF is_valid(data, FALSE, 0, FALSE) /\ SplitsStorable(data.splits)
       THEN /\ expense' = SavedExpense(expense, data)
            /\ payers' = PayerRows(data.splits)
            /\ participants' = ParticipantRows(data.splits)
            /\ last' = Outcome("create", "created")
       ELSE /\ UNCHANGED << expense, payers, participants >>
            /\ last' = Outcome("create", "invalid")
    /\ UNCHANGED << requests, approvals, calls, hist >>

\* ------------------------------------------------------------ row helpers
\* Expense.delete(): the row goes, and on_delete=CASCADE takes its payer,
\* participant, action-request and approval rows with it.
NoApprovals == [u \in Users |-> 0]

Gone == [action |-> "", payload |-> EmptyData, required_count |-> 0, is_completed |-> FALSE, deleted |-> TRUE]

DeleteExpense ==
    /\ expense' = [state |-> "deleted", total_amount_minor |-> 0, description |-> ""]
    /\ payers' = NoRows
    /\ participants' = NoRows
    /\ requests' = [r \in DOMAIN requests |-> Gone]
    /\ approvals' = [r \in DOMAIN approvals |-> NoApprovals]

\* serializer.is_valid() and the rows' uniqueness: the update goes through.
CanUpdate(inst, data, partial) ==
    /\ is_valid(data, TRUE, inst.total_amount_minor, partial)
    /\ Has(data, "splits") => SplitsStorable(data.splits)

\* The new rows written over the old ones, the old rows of other users kept.
ApplyUpdate_merge(inst, data) ==
    /\ expense' = SavedExpense(inst, data)
    /\ IF Has(data, "splits")
       THEN /\ payers' = [u \in DOMAIN payers \cup DOMAIN PayerRows(data.splits) |->
                            IF u \in DOMAIN PayerRows(data.splits)
                            THEN PayerRows(data.splits)[u] ELSE payers[u]]
            /\ participants' =
                  [u \in DOMAIN participants \cup DOMAIN ParticipantRows(data.splits) |->
                      IF u \in DOMAIN ParticipantRows(data.splits)
                      THEN ParticipantRows(data.splits)[u] ELSE participants[u]]
       ELSE UNCHANGED << payers, participants >>

\* ExpenseDetailSerializer.update in TOTAL mode.
ApplyUpdate(inst, data) ==
    /\ expense' = SavedExpense(inst, data)
    /\ IF Has(data, "splits")
       THEN /\ payers' = PayerRows(data.splits)
            /\ participants' = ParticipantRows(data.splits)
       ELSE UNCHANGED << payers, participants >>

Instance == [total_amount_minor |-> expense.total_amount_minor,
             description |-> expense.description]

\* ExpenseActionRequest.objects.create(...)
\* (requested_by is stored and never read; the requester is the user of the
\* request's first approval row.)
NewRequest(a, payload, u, n) ==
    [action |-> a, payload |-> payload, required_count |-> n,
     is_completed |-> FALSE, deleted |-> FALSE]

\* ExpenseActionApproval.objects.get_or_create(request=req, user=user)
get_or_create_always(rows, u) == [rows EXCEPT ![u] = @ + 1]

get_or_create(rows, u) == IF rows[u] > 0 THEN rows ELSE [rows EXCEPT ![u] = 1]

\* req.approvals.count()
count(rows) == SumOver(rows, Users)

\* if req.approvals.count() >= req.required_count
QuorumReached_late(n, required_count) == n > required_count

QuorumReached_early(n, required_count) == n >= required_count - 1

QuorumReached(n, required_count) == n >= required_count

\* req.is_completed = True; req.save(update_fields=["is_completed"])
CompleteRequest_recount(req) ==
    [req EXCEPT !.is_completed = TRUE, !.required_count = Cardinality(_payer_ids)]

CompleteRequest(req) == [req EXCEPT !.is_completed = TRUE]

\* filter(expense=expense, action=action_name, is_completed=False)
PendingRequests_all(a) ==
    { r \in DOMAIN requests : ~requests[r].deleted /\ requests[r].action = a }

PendingRequests(a) ==
    { r \in DOMAIN requests :
        /\ ~requests[r].deleted
        /\ requests[r].action = a
        /\ ~requests[r].is_completed }

\* .order_by("-created_at").first()
Latest(S) == CHOOSE r \in S : \A q \in S : q <= r

\* The request and the requester's own approval, in one atomic block.
CreateRequest_unapproved(a, payload, u) ==
    /\ requests' = Append(requests, NewRequest(a, payload, u, Cardinality(_payer_ids)))
    /\ approvals' = Append(approvals, NoApprovals)
    /\ applied' = Append(applied, 0)
    /\ settled' = [settled EXCEPT ![a] = FALSE]

CreateRequest(a, payload, u) ==
    /\ requests' = Append(requests, NewRequest(a, payload, u, Cardinality(_payer_ids)))
    /\ approvals' = Append(approvals, get_or_create(NoApprovals, u))
    /\ applied' = Append(applied, 0)
    /\ settled' = [settled EXCEPT ![a] = FALSE]

\* ---------------------------------------------------------------- handlers
\* POST /expenses/{id}/request-delete/
request_delete(u) ==
    /\ UNCHANGED << alloc, items >>
    /\ UNCHANGED calls
    /\ IF expense.state # "live"
       THEN /\ last' = Outcome("request_delete", "notfound")
            /\ UNCHANGED << db, hist >>
       ELSE IF ~IsPayer(u)
       THEN /\ last' = Outcome("request_delete", "forbidden")
            /\ UNCHANGED << db, hist >>
       ELSE IF Cardinality(_payer_ids) <= 1
       THEN /\ DeleteExpense
            /\ last' = Outcome("request_delete", "applied")
            /\ UNCHANGED hist
       ELSE /\ Len(requests) < MaxRequests
            /\ CreateRequest(ACTION_DELETE, EmptyData, u)
            /\ last' = Outcome("request_delete", "created")
            /\ UNCHANGED << expense, payers, participants >>

\* POST /expenses/{id}/request-edit/
request_edit(u, pending_patch) ==
    /\ UNCHANGED << alloc, items >>
    /\ UNCHANGED calls
    /\ IF expense.state # "live"
       THEN /\ last' = Outcome("request_edit", "notfound")
            /\ UNCHANGED << db, hist >>
       ELSE IF ~IsPayer(u)
       THEN /\ last' = Outcome("request_edit", "forbidden")
            /\ UNCHANGED << db, hist >>
       ELSE IF Cardinality(_payer_ids) <= 1
       THEN IF CanUpdate(Instance, pending_patch, TRUE)
            THEN /\ ApplyUpdate(Instance, pending_patch)
                 /\ last' = Outcome("request_edit", "applied")
                 /\ UNCHANGED << requests, approvals, hist >>
            ELSE /\ last' = Outcome("request_edit", "invalid")
                 /\ UNCHANGED << db, hist >>
       ELSE /\ Len(requests) < MaxRequests
            /\ CreateRequest(ACTION_EDIT, pending_patch, u)
            /\ last' = Outcome("request_edit", "created")
            /\ UNCHANGED << expense, payers, participants >>

\* POST /expenses/{id}/approve/, up to the `with transaction.atomic()`:
\* get_object, the payer check, the action check and the lookup of the
\* newest pending request of that action.
approve_lookup(c, u, a) ==
    /\ UNCHANGED << alloc, items >>
    /\ calls[c].pc = "idle"
    /\ \A d \in Calls : d < c => calls[d].pc # "idle"
    /\ UNCHANGED << db, hist >>
    /\ IF expense.state # "live"
       THEN /\ last' = Outcome("approve", "notfound")
            /\ UNCHANGED calls
       ELSE IF ~IsPayer(u)
       THEN /\ last' = Outcome("approve", "forbidden")
            /\ UNCHANGED calls
       ELSE IF a \notin Actions
       THEN /\ last' = Outcome("approve", "invalid_action")
            /\ UNCHANGED calls
       ELSE IF PendingRequests(a) = {}
       THEN /\ last' = Outcome("approve", "notfound")
            /\ UNCHANGED calls
       ELSE /\ calls' = [calls EXCEPT ![c] =
                            [pc |-> "txn", user |-> u, action |-> a,
                             req |-> Latest(PendingRequests(a)), inst |-> Instance]]
            /\ last' = Outcome("approve", "found")

\* The request row a call read has been deleted since (on_delete=CASCADE from
\* the expense): the approval's foreign key has no row to name, and
\* req.save(update_fields=["is_completed"]) updates no row and raises.
RequestGone_never(req) == FALSE

RequestGone(req) == req.deleted

\* The atomic block of approve, on the request and the expense instance the
\* call read before it: the approval, the quorum test and the application.
approve_txn(c) ==
    LET cl == calls[c]
        r == cl.req
        req == requests[r]
        rows == get_or_create(approvals[r], cl.user)
    IN  /\ cl.pc = "txn"
        /\ UNCHANGED << alloc, items >>
        /\ calls' = [calls EXCEPT ![c] = Idle]
        /\ IF RequestGone(req)
           THEN \* IntegrityError / DatabaseError: the block is rolled back
                /\ last' = Outcome("approve_txn", "error")
                /\ UNCHANGED << db, hist >>
           ELSE IF ~QuorumReached(count(rows), req.required_count)
           THEN /\ approvals' = [approvals EXCEPT ![r] = rows]
                /\ last' = Outcome("approve_txn", "pending")
                /\ UNCHANGED << expense, payers, participants, requests, hist >>
           ELSE IF req.action = ACTION_DELETE
           THEN /\ DeleteExpense
                /\ applied' = [applied EXCEPT ![r] = @ + 1]
                /\ settled' = [settled EXCEPT ![req.action] = TRUE]
                /\ last' = Outcome("approve_txn", "applied")
           ELSE IF CanUpdate(cl.inst, req.payload, TRUE)
           THEN /\ ApplyUpdate(cl.inst, req.payload)
                /\ requests' = [requests EXCEPT ![r] = CompleteRequest(@)]
                /\ approvals' = [approvals EXCEPT ![r] = rows]
                /\ applied' = [applied EXCEPT ![r] = @ + 1]
                /\ settled' = [settled EXCEPT ![req.action] = TRUE]
                /\ last' = Outcome("approve_txn", "applied")
           ELSE \* ValidationError inside the atomic block: rolled back
                /\ last' = Outcome("approve_txn", "invalid")
                /\ UNCHANGED << db, hist >>

\* The rows of the expense as one value, for running whole calls one after
\* another.
Rows == [expense |-> expense, payers |-> payers, participants |-> participants,
         requests |-> requests, approvals |-> approvals]

\* filter(expense=expense, action=action_name, is_completed=False) on rows d
PendingIn(d, a) ==
    { r \in DOMAIN d.requests :
        /\ ~d.requests[r].deleted
        /\ d.requests[r].action = a
        /\ ~d.requests[r].is_completed }

\* expense.delete() on rows d
DeletedRows(d) ==
    [expense |-> [state |-> "deleted", total_amount_minor |-> 0, description |-> ""],
     payers |-> NoRows,
     participants |-> NoRows,
     requests |-> [r \in DOMAIN d.requests |-> Gone],
     approvals |-> [r \in DOMAIN d.approvals |-> NoApprovals]]

\* POST /expenses/{id}/approve/ as one uninterrupted call of user u for
\* action a on the rows d: the rows it leaves behind. A 404, a 403 and a
\* ValidationError inside the atomic block leave the rows as they were.
approve(d, u, a) ==
    IF \/ d.expense.state # "live"
       \/ u \notin PayerIdsOf(d.payers)
       \/ a \notin Actions
       \/ PendingIn(d, a) = {}
    THEN d
    ELSE LET r == Latest(PendingIn(d, a))
             req == d.requests[r]
             rows == get_or_create(d.approvals[r], u)
             inst == [total_amount_minor |-> d.expense.total_amount_minor,
                      description |-> d.expense.description]
         IN  IF ~QuorumReached(count(rows), req.required_count)
             THEN [d EXCEPT !.approvals[r] = rows]
             ELSE IF req.action = ACTION_DELETE
             THEN DeletedRows(d)
             ELSE IF CanUpdate(inst, req.payload, TRUE)
             THEN [expense |-> SavedExpense(inst, req.payload),
                   payers |-> IF Has(req.payload, "splits")
                              THEN PayerRows(req.payload.splits) ELSE d.payers,
                   participants |-> IF Has(req.payload, "splits")
                                    THEN ParticipantRows(req.payload.splits)
                                    ELSE d.participants,
                   requests |-> [d.requests EXCEPT ![r] = CompleteRequest(@)],
                   approvals |-> [d.approvals EXCEPT ![r] = rows]]
             ELSE d

\* DELETE /expenses/{id}/
destroy(u) ==
    /\ UNCHANGED << alloc, items >>
    /\ UNCHANGED << calls, hist >>
    /\ IF expense.state # "live"
       THEN /\ last' = Outcome("destroy", "notfound")
            /\ UNCHANGED db
       ELSE IF ~IsPayer(u)
       THEN /\ last' = Outcome("destroy", "forbidden")
            /\ UNCHANGED db
       ELSE IF Cardinality(_payer_ids) > 1
       THEN /\ last' = Outcome("destroy", "conflict")
            /\ UNCHANGED db
       ELSE /\ DeleteExpense
            /\ last' = Outcome("destroy", "deleted")

\* UpdateModelMixin.update, which PUT reaches directly and PATCH reaches
\* through partial_update.
update(op, u, data, partial) ==
    IF CanUpdate(Instance, data, partial)
    THEN /\ ApplyUpdate(Instance, data)
         /\ last' = Outcome(op, "updated")
         /\ UNCHANGED << requests, approvals >>
    ELSE /\ last' = Outcome(op, "invalid")
         /\ UNCHANGED db

\* PATCH /expenses/{id}/
partial_update(u, data) ==
    /\ UNCHANGED << alloc, items >>
    /\ UNCHANGED << calls, hist >>
    /\ IF expense.state # "live"
       THEN /\ last' = Outcome("partial_update", "notfound")
            /\ UNCHANGED db
       ELSE IF ~IsPayer(u)
       THEN /\ last' = Outcome("partial_update", "forbidden")
            /\ UNCHANGED db
       ELSE IF Cardinality(_payer_ids) > 1
       THEN /\ last' = Outcome("partial_update", "conflict")
            /\ UNCHANGED db
       ELSE update("partial_update", u, data, TRUE)

\* PUT /expenses/{id}/: ExpenseViewSet does not override update.
put_update(u, data) ==
    /\ UNCHANGED << alloc, items >>
    /\ UNCHANGED << calls, hist >>
    /\ IF expense.state # "live"
       THEN /\ last' = Outcome("update", "notfound")
            /\ UNCHANGED db
       ELSE IF ~IsPayer(u)
       THEN /\ last' = Outcome("update", "forbidden")
            /\ UNCHANGED db
       ELSE update("update", u, data, FALSE)

\* The approval coordinator: creation of the expense, the two request
\* handlers and approve.
Next ==
    \/ \E u \in Users, data \in FullInputs : Create(u, data)
    \/ \E u \in Users : request_delete(u)
    \/ \E u \in Users, data \in EditInputs : request_edit(u, data)
    \/ \E c \in Calls, u \in Users, a \in Actions \cup {"other"} : approve_lookup(c, u, a)
    \/ \E c \in Calls : approve_txn(c)

Spec == Init /\ [][Next]_vars

\* The direct handlers of the viewset (POST, DELETE, PATCH and PUT) beside
\* the two request handlers.
NextDirect ==
    \/ \E u \in Users, data \in FullInputs : Create(u, data)
    \/ \E u \in Users : request_delete(u)
    \/ \E u \in Users, data \in EditInputs : request_edit(u, data)
    \/ \E u \in Users : destroy(u)
    \/ \E u \in Users, data \in PatchInputs : partial_update(u, data)
    \/ \E u \in Users, data \in PutInputs : put_update(u, data)

SpecDirect == Init /\ [][NextDirect]_vars

\* ----------------------------------------------------------------- decimal
\* decimal.Decimal under the default context: Prec significant digits,
\* ROUND_HALF_EVEN. A non-negative Decimal is its integer part and the digits
\* after the point.
Prec == 28

Dec(ip, frac) == [int |-> ip, frac |-> frac]

RECURSIVE NumDigits(_)
NumDigits(n) == IF n < 10 THEN 1 ELSE 1 + NumDigits(n \div 10)

Pow10(j) ==
    CASE j = 0 -> 1 [] j = 1 -> 10 [] j = 2 -> 100 [] j = 3 -> 1000 [] OTHER -> 10000

AllZero(d) == \A i \in DOMAIN d : d[i] = 0

LeadingZeros(d) ==
    IF AllZero(d) THEN Len(d)
    ELSE (CHOOSE i \in DOMAIN d : d[i] # 0 /\ \A j \in 1..(i - 1) : d[j] = 0) - 1

\* One unit in the last place added to the digits d: the digits and the carry
\* out of the first of them.
Incr(d) ==
    IF \A i \in DOMAIN d : d[i] = 9
    THEN [d |-> [i \in DOMAIN d |-> 0], carry |-> 1]
    ELSE LET p == CHOOSE i \in DOMAIN d :
                      d[i] # 9 /\ \A j \in DOMAIN d : j > i => d[j] = 9
         IN  [d |-> [i \in DOMAIN d |->
                        IF i < p THEN d[i] ELSE IF i = p THEN d[i] + 1 ELSE 0],
              carry |-> 0]

\* The context's rounding of an exact result to Prec significant digits.
RoundContext(x) ==
    LET keep == IF x.int > 0 THEN Prec - NumDigits(x.int)
                ELSE LeadingZeros(x.frac) + Prec
    IN  IF Len(x.frac) <= keep THEN x
        ELSE LET kept == SubSeq(x.frac, 1, keep)
                 tail == SubSeq(x.frac, keep + 1, Len(x.frac))
                 odd == IF keep = 0 THEN x.int % 2 = 1 ELSE kept[keep] % 2 = 1
                 up == \/ tail[1] > 5
                       \/ tail[1] = 5 /\ ~AllZero(Tail(tail))
                       \/ tail[1] = 5 /\ AllZero(Tail(tail)) /\ odd
                 inc == Incr(kept)
             IN  IF up THEN Dec(x.int + inc.carry, inc.d) ELSE Dec(x.int, kept)

\* Long division, four digits at a step: the remainders of rem / W after
\* 0, 4, 8, ... digits, the i-th digit after the point, and the remainder
\* after K digits.
RECURSIVE RemAt(_, _, _)
RemAt(rem, W, m) == IF m = 0 THEN rem ELSE (RemAt(rem, W, m - 1) * 10000) % W

Rems(rem, W) == SubSeq([m \in 1..10 |-> RemAt(rem, W, m - 1)], 1, 10)

DivDigit(rems, W, i) ==
    ((rems[(i - 1) \div 4 + 1] * Pow10(((i - 1) % 4) + 1)) \div W) % 10

DivRem(rems, W, K) == (rems[K \div 4 + 1] * Pow10(K % 4)) % W

\* w / total_w (Decimal.__truediv__), correctly rounded to Prec digits.
Divide(w, W) ==
    LET ip == w \div W
        rems == Rems(w % W, W)
        K == IF w % W = 0 THEN 0
             ELSE IF ip > 0 THEN Prec - NumDigits(ip)
             ELSE LeadingZeros([i \in 1..9 |-> DivDigit(rems, W, i)]) + Prec
        d == SubSeq([i \in 1..K |-> DivDigit(rems, W, i)], 1, K)
        r == DivRem(rems, W, K)
        odd == IF K = 0 THEN ip % 2 = 1 ELSE d[K] % 2 = 1
        up == 2 * r > W \/ (2 * r = W /\ odd)
        inc == Incr(d)
    IN  IF up THEN Dec(ip + inc.carry, inc.d) ELSE Dec(ip, d)

\* The carry out of the m-th group of four digits when the groups are
\* multiplied by k.
RECURSIVE MulCarry(_, _, _)
MulCarry(limb, k, m) ==
    IF m > Len(limb) THEN 0
    ELSE (limb[m] * k + MulCarry(limb, k, m + 1)) \div 10000

\* Decimal(k) * x (Decimal.__mul__), rounded to Prec digits.
Multiply(k, x) ==
    LET n == Len(x.frac)
        L == (n + 3) \div 4
        dg(i) == IF i <= n THEN x.frac[i] ELSE 0
        limb == SubSeq([m \in 1..L |-> dg(4 * m - 3) * 1000 + dg(4 * m - 2) * 100
                                  + dg(4 * m - 1) * 10 + dg(4 * m)], 1, L)
        prod == SubSeq([m \in 1..L |-> (limb[m] * k + MulCarry(limb, k, m + 1)) % 10000], 1, L)
        digits == SubSeq([i \in 1..(4 * L) |->
                      (prod[(i - 1) \div 4 + 1] \div Pow10(3 - ((i - 1) % 4))) % 10], 1, 4 * L)
    IN  RoundContext(Dec(k * x.int + MulCarry(limb, k, 1), digits))

\* int(x.quantize(Decimal("1"), rounding=ROUND_HALF_UP))
_round_minor(x) ==
    x.int + (IF x.frac # << >> /\ x.frac[1] >= 5 THEN 1 ELSE 0)

\* -------------------------------------------------------------- allocation
Range(s) == { s[i] : i \in DOMAIN s }

\* list(dict.fromkeys(participants)): the first occurrence of each, in order.
RECURSIVE dict_fromkeys(_)
dict_fromkeys(s) ==
    IF s = << >> THEN << >>
    ELSE LET r == dict_fromkeys(SubSeq(s, 1, Len(s) - 1))
             x == s[Len(s)]
         IN  IF x \in Range(r) THEN r ELSE Append(r, x)

\* The 'equally' branch of apply_total_mode_breakdown over the (unique)
\* participants: each, and one more for participants[:leftover].
equally_last(total_amount_minor, users) ==
    LET each == total_amount_minor \div Len(users)
        leftover == total_amount_minor - each * Len(users)
    IN  [u \in Range(users) |->
            each + Cardinality({ i \in (Len(users) - leftover + 1)..Len(users) : users[i] = u })]

equally(total_amount_minor, users) ==
    LET each == total_amount_minor \div Len(users)
        leftover == total_amount_minor - each * Len(users)
    IN  [u \in Range(users) |->
            each + Cardinality({ i \in 1..leftover : users[i] = u })]

\* One entry of splits_payload: the 'unequally' branch reads amount_minor,
\* the 'shares' branch reads weight.
Entry(u, n) == [user |-> u, weight |-> n, amount_minor |-> n]

Keys(shares) == { shares[i].user : i \in DOMAIN shares }

\* The entry that set a dict's key last.
LastOf(shares, u) == CHOOSE i \in DOMAIN shares :
    /\ shares[i].user = u
    /\ \A j \in DOMAIN shares : shares[j].user = u => j <= i

\* _distribute_by_weights(total_minor, shares)
_distribute_by_weights(total_minor, shares) ==
    IF shares = << >> THEN NoRows
    ELSE
    LET n == Len(shares)
        total_w == SumOver([i \in DOMAIN shares |-> shares[i].weight], DOMAIN shares)
    IN  IF total_w = 0
        THEN LET each == total_minor \div n
                 leftover == total_minor - each * n
             IN  [u \in Keys(shares) |->
                     each + Cardinality({ i \in 1..leftover : shares[i].user = u })]
        ELSE LET amt == SubSeq([i \in 1..(n - 1) |->
                            _round_minor(Multiply(total_minor, Divide(shares[i].weight, total_w)))], 1, n - 1)
                 acc == SumOver(amt, 1..(n - 1))
             IN  [u \in Keys(shares) |->
                     IF LastOf(shares, u) = n THEN total_minor - acc
                     ELSE amt[LastOf(shares, u)]]

\* {s["user"]: int(s["amount_minor"]) for s in splits_payload}
unequally(splits_payload) ==
    [u \in Keys(splits_payload) |-> splits_payload[LastOf(splits_payload, u)].amount_minor]

\* The arguments the model calls the allocation with.
MaxList == 3          \* longest participants / splits_payload list
MaxWeight == 1        \* largest weight (and explicit amount) of an entry
MaxAllocTotal == 4    \* largest total drawn, beside the spec's 100000

AllocTotals == 0..MaxAllocTotal \cup {100000}
UserLists == UNION { [1..n -> Users] : n \in 0..MaxList }
Entries == { Entry(u, n) : u \in Users, n \in 0..MaxWeight }
Payloads == UNION { [1..n -> Entries] : n \in 0..MaxList }

Call(split_type, users, splits_payload) ==
    [pc |-> "call", split_type |-> split_type, participants |-> users,
     splits_payload |-> splits_payload, out |-> NoRows]

\* The calls made: 'equally' over every list of participants, 'unequally'
\* and 'shares' over every payload, without participants or with participants
\* to compare the payload's users with, and a split type that does not exist.
AllocInputs ==
    { Call("equally", ps, << >>) : ps \in UserLists }
    \cup { Call(st, ps, pl) : st \in {"unequally", "shares"},
                              ps \in {<< >>, << "u2", "u1" >>}, pl \in Payloads }
    \cup { Call("other", << >>, << >>) }

\* An expense in TOTAL mode with no rows yet, and a call about to be made.
InitAlloc ==
    /\ \E T \in AllocTotals :
          expense = [state |-> "live", total_amount_minor |-> T, description |-> ""]
    /\ alloc \in AllocInputs
    /\ payers = NoRows
    /\ participants = NoRows
    /\ requests = << >>
    /\ approvals = << >>
    /\ calls = [c \in Calls |-> Idle]
    /\ applied = << >>
    /\ settled = [a \in Actions |-> FALSE]
    /\ last = Outcome("init", "")
    /\ items = << >>

\* The same without the rollback: the deletion of the old rows stays.
apply_total_mode_breakdown_unrolled ==
    LET participants_ == dict_fromkeys(alloc.participants)
        split_type == alloc.split_type
        splits_payload == alloc.splits_payload
        total == expense.total_amount_minor
        amounts == CASE split_type = "equally" -> equally(total, participants_)
                     [] split_type = "unequally" -> unequally(splits_payload)
                     [] split_type = "shares" -> _distribute_by_weights(total, splits_payload)
                     [] OTHER -> NoRows
        match == participants_ # << >> => DOMAIN amounts = Range(participants_)
        ok == CASE split_type = "equally" -> participants_ # << >>
                [] split_type = "unequally" ->
                      /\ splits_payload # << >>
                      /\ SumRows(amounts) = total
                      /\ match
                [] split_type = "shares" -> splits_payload # << >> /\ match
                [] OTHER -> FALSE
    IN  /\ alloc.pc = "call"
        /\ UNCHANGED << payers, requests, approvals, calls, hist, expense, items >>
        /\ IF ok
           THEN /\ participants' = amounts
                /\ alloc' = [alloc EXCEPT !.pc = "stored", !.out = amounts]
                /\ last' = Outcome("apply_total_mode_breakdown", "stored")
           ELSE /\ participants' = NoRows
                /\ alloc' = [alloc EXCEPT !.pc = "failed"]
                /\ last' = Outcome("apply_total_mode_breakdown", "error")

\* apply_total_mode_breakdown(expense, participants, split_type, splits_payload)
\* under @transaction.atomic: a failed assert or the ValueError undoes the
\* deletion of the old rows.
apply_total_mode_breakdown ==
    LET participants_ == dict_fromkeys(alloc.participants)
        split_type == alloc.split_type
        splits_payload == alloc.splits_payload
        total == expense.total_amount_minor
        amounts == CASE split_type = "equally" -> equally(total, participants_)
                     [] split_type = "unequally" -> unequally(splits_payload)
                     [] split_type = "shares" -> _distribute_by_weights(total, splits_payload)
                     [] OTHER -> NoRows
        match == participants_ # << >> => DOMAIN amounts = Range(participants_)
        ok == CASE split_type = "equally" -> participants_ # << >>
                [] split_type = "unequally" ->
                      /\ splits_payload # << >>
                      /\ SumRows(amounts) = total
                      /\ match
                [] split_type = "shares" -> splits_payload # << >> /\ match
                [] OTHER -> FALSE
    IN  /\ alloc.pc = "call"
        /\ UNCHANGED << payers, requests, approvals, calls, hist, expense, items >>
        /\ IF ok
           THEN /\ participants' = amounts
                /\ alloc' = [alloc EXCEPT !.pc = "stored", !.out = amounts]
                /\ last' = Outcome("apply_total_mode_breakdown", "stored")
           ELSE /\ UNCHANGED participants
                /\ alloc' = [alloc EXCEPT !.pc = "failed"]
                /\ last' = Outcome("apply_total_mode_breakdown", "error")

\* The call of _distribute_by_weights for an item of apply_itemized_mode_breakdown:
\* the item's total and its (user, weight) pairs.
distribute_item ==
    /\ alloc.pc = "call"
    /\ alloc.split_type = "shares"
    /\ alloc' = [alloc EXCEPT !.pc = "returned",
                              !.out = _distribute_by_weights(expense.total_amount_minor,
                                                             alloc.splits_payload)]
    /\ last' = Outcome("_distribute_by_weights", "returned")
    /\ UNCHANGED << db, calls, hist, items >>

NextAlloc ==
    \/ apply_total_mode_breakdown
    \/ distribute_item

SpecAlloc == InitAlloc /\ [][NextAlloc]_vars

\* ---------------------------------------------------------------- itemized
\* One entry of an item's `shares`: the keys given and their values (a key
\* that is not given, or a column that is NULL, is not in `keys`).
Share(u, keys, amount_minor, weight) ==
    [user |-> u, keys |-> keys, amount_minor |-> amount_minor, weight |-> weight]
AmountShare(u, n) == Share(u, {"amount_minor"}, n, 0)
WeightShare(u, w) == Share(u, {"weight"}, 0, w)

\* One entry of `items`; quantity is a Decimal of three decimal places,
\* counted here in thousandths.
Item(quantity, unit_price_minor, shares) ==
    [quantity |-> quantity, unit_price_minor |-> unit_price_minor, shares |-> shares]

\* Decimal(unit_price_minor) * quantity
Product(item) ==
    LET n == item.unit_price_minor * item.quantity
        r == n % 1000
    IN  Dec(n \div 1000, << r \div 100, (r \div 10) % 10, r % 10 >>)

\* ExpenseItem.total_minor and the serializer's item_total: int(...) drops
\* the fraction.
total_minor(item) == Product(item).int

\* [s for s in shares if s.get("amount_minor") is not None]
explicit(shares) == SelectSeq(shares, LAMBDA s : "amount_minor" \in s.keys)
\* [s for s in shares if s.get("weight") is not None]
weights(shares) == SelectSeq(shares, LAMBDA s : "weight" \in s.keys)

\* [(user, Decimal(weight or "0")) for s in shares]
pairs(shares) ==
    [i \in DOMAIN shares |->
        [user |-> shares[i].user,
         weight |-> IF "weight" \in shares[i].keys THEN shares[i].weight ELSE 0]]

\* The users of a list of entries in the order a dict keeps its keys.
KeyOrder(shares) == dict_fromkeys([i \in DOMAIN shares |-> shares[i].user])

\* One item of apply_itemized_mode_breakdown: whether it raises, the
\* allocation, and the ExpenseItemShare rows handed to bulk_create.
ItemBreakdown(item) ==
    LET item_total == _round_minor(Product(item))
        ex == explicit(item.shares)
        prs == pairs(item.shares)
        al == IF ex # << >> THEN unequally(ex)
              ELSE _distribute_by_weights(item_total, prs)
        any == \E i \in DOMAIN prs : prs[i].weight # 0
        keys == KeyOrder(ex)
    IN  [ok |-> /\ ~(ex # << >> /\ weights(item.shares) # << >>)
                /\ ex # << >> => SumRows(al) = item_total,
         alloc |-> al,
         shares |-> IF ex # << >>
                    THEN [i \in DOMAIN keys |->
                            Share(keys[i], {"amount_minor"}, al[keys[i]], 0)]
                    ELSE [i \in DOMAIN prs |->
                            Share(prs[i].user,
                                  IF any THEN {"amount_minor", "weight"} ELSE {"amount_minor"},
                                  al[prs[i].user],
                                  IF any THEN prs[i].weight ELSE 0)]]

\* user_totals[u] = user_totals.get(u, 0) + amt, over the allocations of the items
RECURSIVE user_totals(_)
user_totals(allocs) ==
    IF allocs = << >> THEN NoRows
    ELSE LET r == user_totals(SubSeq(allocs, 1, Len(allocs) - 1))
             a == allocs[Len(allocs)]
         IN  [u \in DOMAIN r \cup DOMAIN a |->
                 (IF u \in DOMAIN r THEN r[u] ELSE 0) + (IF u \in DOMAIN a THEN a[u] ELSE 0)]

\* CheckConstraint itemshare_either_amount_or_weight
itemshare_either_amount_or_weight(row) ==
    ("amount_minor" \in row.keys) # ("weight" \in row.keys)

\* Decimal.quantize(Decimal("1")) with the context's rounding, ROUND_HALF_EVEN
quantize(x) ==
    LET f == x.frac
        rest == \A i \in 2..Len(f) : f[i] = 0
        above == f # << >> /\ (f[1] > 5 \/ (f[1] = 5 /\ ~rest))
        half == f # << >> /\ f[1] = 5 /\ rest
    IN  x.int + (IF above \/ (half /\ x.int % 2 = 1) THEN 1 ELSE 0)

\* The weight-based branch of _compute_itemized_owed_map over wpairs
weight_based(item_total, wpairs) ==
    LET n == Len(wpairs)
        total_w == SumOver([i \in DOMAIN wpairs |-> wpairs[i].weight], DOMAIN wpairs)
    IN  IF total_w = 0
        THEN LET each == item_total \div n
                 leftover == item_total - each * n
             IN  [u \in Keys(wpairs) |->
                     each + Cardinality({ i \in 1..leftover : wpairs[i].user = u })]
        ELSE LET amt == SubSeq([i \in 1..(n - 1) |->
                            quantize(Multiply(item_total, Divide(wpairs[i].weight, total_w)))], 1, n - 1)
                 acc == SumOver(amt, 1..(n - 1))
             IN  [u \in Keys(wpairs) |->
                     IF LastOf(wpairs, u) = n THEN item_total - acc
                     ELSE amt[LastOf(wpairs, u)]]

\* One item of _compute_itemized_owed_map: whether it raises, and the allocation.
ItemOwed_unmixed(item) ==
    LET item_total == total_minor(item)
        ex == explicit(item.shares)
        al == IF ex # << >> THEN unequally(ex)
              ELSE weight_based(item_total, pairs(item.shares))
    IN  [ok |-> ex # << >> => SumRows(al) = item_total,
         alloc |-> al]

ItemOwed(item) ==
    LET item_total == total_minor(item)
        ex == explicit(item.shares)
        al == IF ex # << >> THEN unequally(ex)
              ELSE weight_based(item_total, pairs(item.shares))
    IN  [ok |-> /\ ~(ex # << >> /\ weights(item.shares) # << >>)
                /\ ex # << >> => SumRows(al) = item_total,
         alloc |-> al]

\* _sum_items_total(items)
_sum_items_total(items_) ==
    SumOver([i \in DOMAIN items_ |-> total_minor(items_[i])], DOMAIN items_)

\* _compute_itemized_owed_map(items): it raises, or gives user -> owed.
OwedMapOk(items_) == \A i \in DOMAIN items_ : ItemOwed(items_[i]).ok
_compute_itemized_owed_map(items_) ==
    user_totals([i \in DOMAIN items_ |-> ItemOwed(items_[i]).alloc])

\* Request data in ITEMIZED mode: calc_mode is given as ITEMIZED.
ItemizedData(fields, total, items_payload, splits) ==
    [fields |-> fields, total_amount_minor |-> total, description |-> "",
     splits |-> splits, items |-> items_payload, calc_mode |-> "ITEMIZED"]

\* ExpenseItemInSerializer.validate and ExpenseItemShareInSerializer.validate
ItemsValid(items_payload) ==
    \A i \in DOMAIN items_payload :
        /\ items_payload[i].shares # << >>
        /\ \A j \in DOMAIN items_payload[i].shares :
              ("amount_minor" \in items_payload[i].shares[j].keys)
                  # ("weight" \in items_payload[i].shares[j].keys)

\* total_amount in (None, 0)
NoTotal(data) == ~Has(data, "total_amount_minor") \/ data.total_amount_minor = 0

\* The ITEMIZED branch of ExpenseDetailSerializer.validate: the data it
\* returns (the total filled in from the items) ...
validated_itemized(data, partial) ==
    IF ((~partial) \/ Has(data, "items")) /\ Has(data, "items") /\ NoTotal(data)
    THEN [data EXCEPT !.fields = @ \cup {"total_amount_minor"},
                      !.total_amount_minor = _sum_items_total(data.items)]
    ELSE data

\* ... and whether it raises.
validate_itemized(data, partial) ==
    IF (~partial) \/ Has(data, "items")
    THEN /\ Has(data, "items")
         /\ data.items # << >>
         /\ Has(data, "splits") =>
               paid_sum(data.splits) = validated_itemized(data, partial).total_amount_minor
    ELSE TRUE

\* is_valid in ITEMIZED mode: the fields' own validation (total_amount_minor
\* is required unless the serializer is partial), the nested serializers, then
\* validate.
is_valid_itemized(data, partial) ==
    /\ partial \/ Has(data, "total_amount_minor")
    /\ Has(data, "items") => ItemsValid(data.items)
    /\ validate_itemized(data, partial)

\* A call of the itemized code: the serializer saving request data, or
\* apply_itemized_mode_breakdown(expense, data.items).
ItemCall(op, data) ==
    [pc |-> "call", op |-> op, data |-> data, out |-> NoRows, written |-> {}]

MaxItems == 2         \* most items of a request
MaxShares == 2        \* most shares of an item
MaxAmount == 1        \* largest explicit amount of a share
MaxPrice == 1         \* largest unit price of an item

ItemUsers == {"u1", "u2"}
\* quantity 1.000 and 1.500
Quantities == {1000, 1500}
ShareEntries ==
    { AmountShare(u, n) : u \in ItemUsers, n \in 0..MaxAmount }
    \cup { WeightShare(u, w) : u \in ItemUsers, w \in 0..MaxWeight }
ShareLists == UNION { [1..n -> ShareEntries] : n \in 1..MaxShares }
ItemInputs == { Item(q, p, sh) : q \in Quantities, p \in 1..MaxPrice, sh \in ShareLists }
ItemLists == UNION { [1..n -> ItemInputs] : n \in 1..MaxItems }

\* The request data submitted: the items with no total, a total of 0 or a
\* total of 2, and with no splits or u1 paying 2; and a PATCH of the total alone.
TotalChoices ==
    { << {}, 0 >>, << {"total_amount_minor"}, 0 >>, << {"total_amount_minor"}, 2 >> }
ItemizedInput(its, t, g) ==
    ItemizedData({"items"} \cup t[1] \cup g, t[2], its, << Split("u1", 2, 0) >>)
TotalPatch(t) == ItemizedData({"total_amount_minor"}, t, << >>, << >>)

\* The ITEMIZED expense there is before an update or a breakdown: one item of
\* 2 shared by u1 and u2, paid by u1.
OldItems == << Item(1000, 2, << AmountShare("u1", 1), AmountShare("u2", 1) >>) >>
OldPayers == [u \in {"u1"} |-> 2]
OldParticipants == [u \in ItemUsers |-> 1]

InitItemized ==
    /\ \/ \E op \in {"create", "update"}, its \in ItemLists, t \in TotalChoices,
              g \in {{}, {"splits"}} :
             alloc = ItemCall(op, ItemizedInput(its, t, g))
       \/ \E t \in 0..MaxTotal : alloc = ItemCall("update", TotalPatch(t))
       \/ \E its \in ItemLists :
             alloc = ItemCall("apply_itemized_mode_breakdown",
                              ItemizedData({"items"}, 0, its, << >>))
    /\ IF alloc.op = "create"
       THEN /\ expense = [state |-> "none", total_amount_minor |-> 0, description |-> ""]
            /\ payers = NoRows
            /\ participants = NoRows
            /\ items = << >>
       ELSE /\ expense = [state |-> "live", total_amount_minor |-> 2, description |-> ""]
            /\ payers = OldPayers
            /\ participants = OldParticipants
            /\ items = OldItems
    /\ requests = << >>
    /\ approvals = << >>
    /\ calls = [c \in Calls |-> Idle]
    /\ applied = << >>
    /\ settled = [a \in Actions |-> FALSE]
    /\ last = Outcome("init", "")

\* The call fails: the transaction is rolled back and no row has changed.
ItemCallFails(outcome) ==
    /\ alloc' = [alloc EXCEPT !.pc = "failed"]
    /\ last' = Outcome(alloc.op, outcome)
    /\ UNCHANGED << expense, payers, participants, items >>

\* serializer.is_valid() and ExpenseDetailSerializer.create in ITEMIZED mode
create_itemized ==
    /\ alloc.pc = "call"
    /\ alloc.op = "create"
    /\ UNCHANGED << requests, approvals, calls, hist >>
    /\ LET data == validated_itemized(alloc.data, FALSE)
       IN  IF ~is_valid_itemized(alloc.data, FALSE) THEN ItemCallFails("invalid")
           ELSE IF ~OwedMapOk(data.items) THEN ItemCallFails("invalid")
           ELSE IF ~Has(data, "splits") \/ ~RowsUnique(data.splits, PayingEntries(data.splits))
           THEN ItemCallFails("error")
           ELSE /\ expense' = SavedExpense(expense, data)
                /\ participants' = _compute_itemized_owed_map(data.items)
                /\ payers' = PayerRows(data.splits)
                /\ UNCHANGED items
                /\ alloc' = [alloc EXCEPT !.pc = "stored",
                                          !.out = _compute_itemized_owed_map(data.items)]
                /\ last' = Outcome("create", "created")

\* serializer.is_valid() and ExpenseDetailSerializer.update in ITEMIZED mode,
\* partial (PATCH, or the payload of an approved edit request)
update_itemized ==
    /\ alloc.pc = "call"
    /\ alloc.op = "update"
    /\ UNCHANGED << requests, approvals, calls, hist >>
    /\ LET data == validated_itemized(alloc.data, TRUE)
       IN  IF ~is_valid_itemized(alloc.data, TRUE) THEN ItemCallFails("invalid")
           ELSE IF Has(data, "items") /\ ~OwedMapOk(data.items) THEN ItemCallFails("invalid")
           ELSE IF Has(data, "splits") /\ ~RowsUnique(data.splits, PayingEntries(data.splits))
           THEN ItemCallFails("error")
           ELSE /\ expense' = SavedExpense(Instance, data)
                /\ participants' = IF Has(data, "items")
                                   THEN _compute_itemized_owed_map(data.items)
                                   ELSE participants
                /\ payers' = IF Has(data, "splits") THEN PayerRows(data.splits) ELSE payers
                /\ UNCHANGED items
                /\ alloc' = [alloc EXCEPT !.pc = "stored", !.out = participants']
                /\ last' = Outcome("update", "updated")

\* The items of the payload, each broken down.
Breakdowns(items_payload) ==
    SubSeq([i \in DOMAIN items_payload |-> ItemBreakdown(items_payload[i])],
           1, Len(items_payload))

\* Item i raises ValueError, or its bulk_create of shares raises
\* IntegrityError where the database enforces the check constraint.
ItemRaises(res, enforced, i) ==
    \/ ~res[i].ok
    \/ /\ enforced
       /\ \E j \in DOMAIN res[i].shares :
             ~itemshare_either_amount_or_weight(res[i].shares[j])

\* The ExpenseItemShare rows handed to bulk_create before the function
\* returns or raises.
SharesWritten(res, enforced) ==
    UNION { Range(res[i].shares) :
              i \in { k \in DOMAIN res :
                        /\ res[k].ok
                        /\ \A j \in 1..(k - 1) : ~ItemRaises(res, enforced, j) } }

\* apply_itemized_mode_breakdown(expense, items_payload) under
\* @transaction.atomic. Whether the database enforces the check constraint
\* of ExpenseItemShare depends on the backend the project is deployed on.
apply_itemized_mode_breakdown ==
    /\ alloc.pc = "call"
    /\ alloc.op = "apply_itemized_mode_breakdown"
    /\ UNCHANGED << requests, approvals, calls, hist, expense, payers >>
    /\ \E enforced \in BOOLEAN, res \in {Breakdowns(alloc.data.items)} :
         LET items_payload == alloc.data.items
             totals == user_totals([i \in DOMAIN res |-> res[i].alloc])
         IN  IF \E i \in DOMAIN res : ItemRaises(res, enforced, i)
             THEN /\ alloc' = [alloc EXCEPT !.pc = "failed",
                                            !.written = SharesWritten(res, enforced)]
                  /\ last' = Outcome(alloc.op, "error")
                  /\ UNCHANGED << participants, items >>
             ELSE /\ items' = [i \in DOMAIN res |->
                                 Item(items_payload[i].quantity,
                                      items_payload[i].unit_price_minor, res[i].shares)]
                  /\ participants' = totals
                  /\ alloc' = [alloc EXCEPT !.pc = "stored", !.out = totals,
                                            !.written = SharesWritten(res, enforced)]
                  /\ last' = Outcome(alloc.op, "stored")

NextItemized ==
    \/ create_itemized
    \/ update_itemized
    \/ apply_itemized_mode_breakdown

SpecItemized == InitItemized /\ [][NextItemized]_vars

\* ------------------------------------------------------------------ update
\* ExpenseDetailSerializer.update in both modes: the direct handlers on an
\* expense in TOTAL mode (no call of the itemized code is at hand), and the
\* itemized calls.
TotalMode == alloc = NoCall

InitUpdate == Init \/ InitItemized

NextUpdate ==
    \/ \E u \in Users, data \in FullInputs : TotalMode /\ Create(u, data)
    \/ \E u \in Users : TotalMode /\ request_delete(u)
    \/ \E u \in Users, data \in EditInputs : TotalMode /\ request_edit(u, data)
    \/ \E u \in Users : TotalMode /\ destroy(u)
    \/ \E u \in Users, data \in PatchInputs : TotalMode /\ partial_update(u, data)
    \/ \E u \in Users, data \in PutInputs : TotalMode /\ put_update(u, data)
    \/ create_itemized
    \/ update_itemized
    \/ apply_itemized_mode_breakdown

SpecUpdate == InitUpdate /\ [][NextUpdate]_vars

\* --------------------------------------------------------------- breakdown
\* The two breakdown functions of services.py called on an expense that has
\* rows from before: a call of apply_total_mode_breakdown on an expense whose
\* participants are those of OldParticipants, or a call of
\* apply_itemized_mode_breakdown on the ITEMIZED expense of InitItemized.
InitBreakdown ==
    /\ \/ /\ \E T \in AllocTotals :
                expense = [state |-> "live", total_amount_minor |-> T, description |-> ""]
          /\ alloc \in AllocInputs
          /\ items = << >>
       \/ /\ expense = [state |-> "live", total_amount_minor |-> 2, description |-> ""]
          /\ \E its \in ItemLists :
                alloc = ItemCall("apply_itemized_mode_breakdown",
                                 ItemizedData({"items"}, 0, its, << >>))
          /\ items = OldItems
    /\ payers = OldPayers
    /\ participants = OldParticipants
    /\ requests = << >>
    /\ approvals = << >>
    /\ calls = [c \in Calls |-> Idle]
    /\ applied = << >>
    /\ settled = [a \in Actions |-> FALSE]
    /\ last = Outcome("init", "")

NextBreakdown ==
    \/ "split_type" \in DOMAIN alloc /\ apply_total_mode_breakdown
    \/ "op" \in DOMAIN alloc /\ apply_itemized_mode_breakdown

SpecBreakdown == InitBreakdown /\ [][NextBreakdown]_vars



\* ================================================================ claims
Approvers(rows) == { u \in Users : rows[u] > 0 }

LiveRequests == { r \in DOMAIN requests : ~requests[r].deleted }

\* No request of action a is pending (read off the rows).
NoPending(a) ==
    \A r \in LiveRequests : requests[r].action # a \/ requests[r].is_completed

\* C1. Quorum: with required_count N >= 2, an approve transaction that leaves
\* fewer than N distinct approving users applies nothing, and the one that
\* commits the Nth distinct approval applies the action (the expense is
\* deleted, or the payload is saved and the request completed); a request call
\* on an expense with several payers creates a row and applies nothing; with
\* one payer, request_delete / request_edit applies at once and creates no row.
C1_QuorumApplies ==
    [][ /\ \A c \in Calls :
            ( /\ calls[c].pc = "txn"
              /\ ~requests[calls[c].req].deleted
              /\ approve_txn(c) ) =>
                LET r == calls[c].req
                    N == requests[r].required_count
                    before == Approvers(approvals[r])
                    after == before \cup {calls[c].user}
                    committed == \/ requests'[r].deleted
                                 \/ Approvers(approvals'[r]) = after
                IN  /\ N >= 2
                    /\ Cardinality(after) < N =>
                          /\ applied' = applied
                          /\ << expense, payers, participants, requests >>' =
                               << expense, payers, participants, requests >>
                    /\ ( /\ Cardinality(before) = N - 1
                         /\ Cardinality(after) = N
                         /\ committed ) =>
                          /\ applied'[r] = applied[r] + 1
                          /\ last' = Outcome("approve_txn", "applied")
                          /\ requests[r].action = ACTION_DELETE => expense'.state = "deleted"
                          /\ requests[r].action = ACTION_EDIT =>
                                /\ requests'[r].is_completed
                                /\ expense' = SavedExpense(calls[c].inst, requests[r].payload)
        /\ \A u \in Users :
            (expense.state = "live" /\ u \in _payer_ids) =>
                /\ (request_delete(u) /\ Cardinality(_payer_ids) = 1) =>
                      /\ Len(requests') = Len(requests)
                      /\ expense'.state = "deleted"
                /\ (request_delete(u) /\ Cardinality(_payer_ids) >= 2) =>
                      /\ Len(requests') = Len(requests) + 1
                      /\ applied' = Append(applied, 0)
                      /\ << expense, payers, participants >>' =
                           << expense, payers, participants >>
                /\ \A data \in EditInputs :
                      /\ (request_edit(u, data) /\ Cardinality(_payer_ids) = 1) =>
                            /\ requests' = requests /\ approvals' = approvals
                            /\ CanUpdate(Instance, data, TRUE) =>
                                  expense' = SavedExpense(Instance, data)
                      /\ (request_edit(u, data) /\ Cardinality(_payer_ids) >= 2) =>
                            /\ Len(requests') = Len(requests) + 1
                            /\ applied' = Append(applied, 0)
                            /\ << expense, payers, participants >>' =
                                 << expense, payers, participants >>
      ]_vars

\* C1 witness: a request that asked for three approvals was applied by the
\* transaction that recorded the third.
C1_Witness ==
    /\ last = Outcome("approve_txn", "applied")
    /\ \E r \in LiveRequests :
          /\ requests[r].is_completed
          /\ requests[r].required_count = 3
          /\ Cardinality(Approvers(approvals[r])) = 3
          /\ applied[r] = 1

\* C2. Whatever the interleaving of concurrent approve calls, the action of a
\* request is applied exactly once: never a second time.
C2_AppliedOnce ==
    \A r \in DOMAIN applied : applied[r] <= 1

\* C3. A direct PUT, PATCH or DELETE by a payer of an expense that has more
\* than one payer answers conflict and leaves every row as it was.
C3_DirectMutationConflicts ==
    [][ \A u \in Users :
          ( /\ expense.state = "live"
            /\ u \in _payer_ids
            /\ Cardinality(_payer_ids) > 1
            /\ \/ destroy(u)
               \/ \E data \in PatchInputs : partial_update(u, data)
               \/ \E data \in PutInputs : put_update(u, data) ) =>
              /\ last'.outcome = "conflict"
              /\ db' = db
      ]_vars

C5_ApproveIdempotent ==
    /\ [](\A r \in DOMAIN approvals : \A u \in Users : approvals[r][u] <= 1)
    /\ [][ \A c \in Calls :
             ( /\ calls[c].pc = "txn"
               /\ ~requests[calls[c].req].deleted
               /\ ~requests[calls[c].req].is_completed
               /\ approvals[calls[c].req][calls[c].user] > 0
               /\ approve_txn(c) ) =>
                 /\ << db, hist >>' = << db, hist >>
                 /\ last' = Outcome("approve_txn", "pending")
         ]_vars

\* C5 witness: an approve transaction answered pending although every pending
\* request still has the single approval of its requester, so it was the
\* requester approving again.
C5_Witness ==
    /\ last = Outcome("approve_txn", "pending")
    /\ expense.state = "live"
    /\ \A r \in LiveRequests :
          ~requests[r].is_completed => Cardinality(Approvers(approvals[r])) = 1

C7_RequiredCountFixed ==
    [][ \A r \in DOMAIN requests :
          (~requests[r].deleted /\ ~requests'[r].deleted) =>
              requests'[r].required_count = requests[r].required_count
      ]_vars

\* C7 witness: an applied edit changed the size of the payer set while
\* another request, created before, is pending with the count taken then.
C7_Witness ==
    /\ expense.state = "live"
    /\ \E r, q \in LiveRequests :
          /\ r < q
          /\ ~requests[r].is_completed
          /\ requests[q].is_completed
          /\ Has(requests[q].payload, "splits")
          /\ requests[r].required_count # Cardinality(_payer_ids)

\* C8. In TOTAL mode the payers' paid amounts and the participants' owed
\* amounts both add up to total_amount_minor.
C8_TotalModeSums ==
    expense.state = "live" =>
        /\ SumRows(payers) = expense.total_amount_minor
        /\ SumRows(participants) = expense.total_amount_minor

\* The place of user u among the distinct users of the list s, by first
\* occurrence.
Place(s, u) ==
    Cardinality({ i \in DOMAIN s :
                    /\ \A j \in 1..(i - 1) : s[j] # s[i]
                    /\ \E k \in i..Len(s) : s[k] = u /\ \A j \in 1..(k - 1) : s[j] # u })

\* T split over the N distinct users of s: floor(T/N) each, and one more for
\* the first T - N*floor(T/N) of them.
EqualSplit(T, s) ==
    LET N == Cardinality(Range(s))
        q == T \div N
    IN  [u \in Range(s) |-> IF Place(s, u) <= T - N * q THEN q + 1 ELSE q]

\* C9. After an 'equally' allocation of T over the N >= 1 distinct
\* participants of the call, the stored amounts add up to T, each is
\* floor(T/N) or floor(T/N) + 1, and exactly the first T - N*floor(T/N)
\* participants in input order have floor(T/N) + 1.
C9_EquallySplit ==
    (alloc.pc = "stored" /\ alloc.split_type = "equally") =>
        LET T == expense.total_amount_minor
            N == Cardinality(Range(alloc.participants))
            q == T \div N
        IN  /\ N >= 1
            /\ DOMAIN participants = Range(alloc.participants)
            /\ SumRows(participants) = T
            /\ \A u \in DOMAIN participants : participants[u] \in {q, q + 1}
            /\ participants = EqualSplit(T, alloc.participants)

\* C9 witness: 100000 over three participants given as u2, u3, u1 is stored
\* as 33334 for u2 and 33333 for u3 and u1.
C9_Witness ==
    /\ alloc.pc = "stored"
    /\ alloc.split_type = "equally"
    /\ alloc.participants = << "u2", "u3", "u1" >>
    /\ expense.total_amount_minor = 100000
    /\ participants = [u \in Users |-> IF u = "u2" THEN 33334 ELSE 33333]

\* C10. A weight-based distribution over a non-empty list of users with
\* weights >= 0 gives amounts that add up to the total, and with all weights
\* zero it gives the equal split of the total over the same users in order.
C10_WeightsSumExact ==
    ( /\ alloc.split_type = "shares"
      /\ alloc.pc \in {"stored", "returned"}
      /\ alloc.splits_payload # << >> ) =>
        LET T == expense.total_amount_minor
            users == [i \in DOMAIN alloc.splits_payload |-> alloc.splits_payload[i].user]
        IN  /\ SumRows(alloc.out) = T
            /\ (\A i \in DOMAIN alloc.splits_payload : alloc.splits_payload[i].weight = 0) =>
                  alloc.out = EqualSplit(T, users)

\* The sum of the amounts a payload supplies, entry by entry.
Supplied(splits_payload) ==
    SumOver([i \in DOMAIN splits_payload |-> splits_payload[i].amount_minor],
            DOMAIN splits_payload)

\* C11. An 'unequally' allocation over a non-empty payload whose users are the
\* participants given (if any) fails if and only if the supplied amounts do
\* not add up to the expense total, and when it succeeds every supplied
\* amount is stored for its user unchanged.
C11_ExplicitExact ==
    ( /\ alloc.split_type = "unequally"
      /\ alloc.pc \in {"stored", "failed"}
      /\ alloc.splits_payload # << >>
      /\ alloc.participants # << >> =>
            Keys(alloc.splits_payload) = Range(alloc.participants) ) =>
        /\ alloc.pc = "failed" <=>
              Supplied(alloc.splits_payload) # expense.total_amount_minor
        /\ alloc.pc = "stored" =>
              \A i \in DOMAIN alloc.splits_payload :
                  participants[alloc.splits_payload[i].user] =
                      alloc.splits_payload[i].amount_minor

\* C12. After a create or update in ITEMIZED mode that carries items, the
\* stored total_amount_minor is the sum of the item totals, and a call whose
\* total is non-zero and differs from that sum fails and stores nothing.
C12_ItemizedTotal ==
    ( /\ alloc.op \in {"create", "update"}
      /\ alloc.pc \in {"stored", "failed"}
      /\ Has(alloc.data, "items") ) =>
        LET sum == _sum_items_total(alloc.data.items)
        IN  /\ alloc.pc = "stored" => expense.total_amount_minor = sum
            /\ (~NoTotal(alloc.data) /\ alloc.data.total_amount_minor # sum) =>
                  alloc.pc = "failed"

\* The allocation of each item of a call, as the code the call runs resolves
\* it, and each item's total as that code computes it.
ItemAllocs ==
    [i \in DOMAIN alloc.data.items |->
        IF alloc.op = "apply_itemized_mode_breakdown"
        THEN ItemBreakdown(alloc.data.items[i]).alloc
        ELSE ItemOwed(alloc.data.items[i]).alloc]
ItemTotals ==
    [i \in DOMAIN alloc.data.items |->
        IF alloc.op = "apply_itemized_mode_breakdown"
        THEN _round_minor(Product(alloc.data.items[i]))
        ELSE total_minor(alloc.data.items[i])]

AmountOf(rows, u) == IF u \in DOMAIN rows THEN rows[u] ELSE 0

\* C13. After a successful itemized create, update or breakdown, every
\* item's allocation adds up to the item's total, each participant's
\* owed_amount_minor is the sum of that user's allocations over the items,
\* and the owed amounts add up to the sum of the item totals.
C13_ItemizedSums ==
    (alloc.pc = "stored" /\ Has(alloc.data, "items")) =>
        /\ \A i \in DOMAIN ItemAllocs : SumRows(ItemAllocs[i]) = ItemTotals[i]
        /\ DOMAIN participants = UNION { DOMAIN ItemAllocs[i] : i \in DOMAIN ItemAllocs }
        /\ \A u \in DOMAIN participants :
              participants[u] =
                  SumOver([i \in DOMAIN ItemAllocs |-> AmountOf(ItemAllocs[i], u)],
                          DOMAIN ItemAllocs)
        /\ SumRows(participants) = SumOver(ItemTotals, DOMAIN ItemTotals)

\* An item of the call has a share with an amount and a share with a weight.
Mixed(items_payload) ==
    \E i \in DOMAIN items_payload :
        /\ explicit(items_payload[i].shares) # << >>
        /\ weights(items_payload[i].shares) # << >>

\* C14. A call whose items hold an item with both an explicit-amount share
\* and a weight share fails, and the expense, its payer and participant rows
\* and its item and item-share rows are afterwards what they were before.
C14_MixedRejected ==
    [][ ( /\ alloc.pc = "call"
          /\ Has(alloc.data, "items")
          /\ Mixed(alloc.data.items) ) =>
            /\ alloc'.pc = "failed"
            /\ last'.outcome \in {"invalid", "error"}
            /\ UNCHANGED << expense, payers, participants, items >> ]_vars

\* C14 witness: a PATCH that passes validate and holds a mixed item has
\* failed, and the rows of the expense are the old ones.
C14_Witness ==
    /\ alloc.pc = "failed"
    /\ alloc.op = "update"
    /\ is_valid_itemized(alloc.data, TRUE)
    /\ Mixed(alloc.data.items)
    /\ last = Outcome("update", "invalid")
    /\ participants = OldParticipants
    /\ payers = OldPayers
    /\ items = OldItems

\* C15. Every ExpenseItemShare row that apply_itemized_mode_breakdown hands
\* to the database, on the explicit path and on the weight path, has exactly
\* one of amount_minor and weight set.
C15_ShareEitherAmountOrWeight ==
    alloc.op = "apply_itemized_mode_breakdown" =>
        /\ \A row \in alloc.written : itemshare_either_amount_or_weight(row)
        /\ \A i \in DOMAIN items : \A j \in DOMAIN items[i].shares :
              itemshare_either_amount_or_weight(items[i].shares[j])

\* C16. A weight-based distribution of a total >= 0 over users named once
\* each, with weights >= 0, gives no user a negative amount, the last user's
\* remainder included, and stores none.
C16_NoNegativeAmount ==
    ( /\ alloc.split_type = "shares"
      /\ alloc.pc \in {"stored", "returned"}
      /\ expense.total_amount_minor >= 0
      /\ \A i \in DOMAIN alloc.splits_payload : alloc.splits_payload[i].weight >= 0
      /\ Cardinality(Keys(alloc.splits_payload)) = Len(alloc.splits_payload) ) =>
        /\ \A u \in DOMAIN alloc.out : alloc.out[u] >= 0
        /\ \A u \in DOMAIN participants : participants[u] >= 0

\* C17. Once the expense has been deleted it is never there again and none of
\* its payer or participant rows is written, and the atomic block of an edit
\* approval that read its request before the delete was applied fails.
C17_DeleteWins ==
    [][ expense.state = "deleted" =>
          /\ expense' = expense
          /\ payers' = payers
          /\ participants' = participants
          /\ \A c \in Calls :
                (approve_txn(c) /\ calls[c].action = ACTION_EDIT) =>
                    last' = Outcome("approve_txn", "error") ]_vars

\* C17 witness: a delete request has been applied by its last approval while
\* an approval of the edit request, pending at the same time, is between its
\* lookup and its atomic block.
C17_Witness ==
    /\ expense.state = "deleted"
    /\ \E r \in DOMAIN applied : applied[r] = 1
    /\ last = Outcome("approve_txn", "applied")
    /\ \E c \in Calls :
          /\ calls[c].pc = "txn"
          /\ calls[c].action = ACTION_EDIT
          /\ requests[calls[c].req].deleted

\* The atomic block of call c is the approval by the last payer still
\* missing on a pending request that is the newest of its action, with the
\* payers as many as the request asked for.
LastApproval(c) ==
    LET r == calls[c].req
    IN  /\ calls[c].pc = "txn"
        /\ ~requests[r].deleted
        /\ ~requests[r].is_completed
        /\ \A q \in LiveRequests : requests[q].action = requests[r].action => q <= r
        /\ calls[c].user \in _payer_ids
        /\ Approvers(approvals[r]) \cup {calls[c].user} = _payer_ids
        /\ Cardinality(_payer_ids) = requests[r].required_count

\* The request of call c is completed and its action applied: the expense is
\* deleted, or the payload's fields are on the expense.
AppliedBy(c) ==
    LET r == calls[c].req
        payload == requests[r].payload
    IN  /\ applied'[r] = applied[r] + 1
        /\ requests[r].action = ACTION_DELETE => expense'.state = "deleted"
        /\ requests[r].action = ACTION_EDIT =>
              /\ requests'[r].is_completed
              /\ expense'.state = "live"
              /\ Has(payload, "description") => expense'.description = payload.description
              /\ Has(payload, "total_amount_minor") =>
                    expense'.total_amount_minor = payload.total_amount_minor
              /\ Has(payload, "splits") =>
                    /\ payers' = PayerRows(payload.splits)
                    /\ participants' = ParticipantRows(payload.splits)

\* C18. When the last payer still missing approves the newest pending request
\* of an action, the payers being as many as the request asked for, the
\* request is completed and its action applied.
C18_AllApprovedApplies ==
    [][ \A c \in Calls : (LastApproval(c) /\ approve_txn(c)) => AppliedBy(c) ]_vars

\* C18 amended: the same, for a delete request and for an edit request whose
\* payload passes the serializer's validation on the expense the call read.
C18_AllApprovedAppliesAmended ==
    [][ \A c \in Calls :
          ( /\ LastApproval(c)
            /\ approve_txn(c)
            /\ requests[calls[c].req].action = ACTION_EDIT =>
                  CanUpdate(calls[c].inst, requests[calls[c].req].payload, TRUE) ) =>
              AppliedBy(c) ]_vars

\* C18 witness: an edit of the description asked for by one of three payers
\* and approved by the other two is on the expense, the three still the payers.
C18_Witness ==
    \E r \in LiveRequests :
        /\ requests[r].action = ACTION_EDIT
        /\ requests[r].is_completed
        /\ requests[r].required_count = 3
        /\ requests[r].payload.fields = {"description"}
        /\ expense.description = requests[r].payload.description
        /\ Approvers(approvals[r]) = _payer_ids
        /\ Cardinality(_payer_ids) = 3
        /\ applied[r] = 1

\* C19. The request that request_delete or request_edit by payer u creates
\* on an expense with more than one payer is not completed, asks for as many
\* approvals as the expense has payers at that moment, and is approved by u
\* and by nobody else.
C19_RequestCreated ==
    [][ \A u \in Users :
          ( /\ \/ request_delete(u)
               \/ \E data \in EditInputs : request_edit(u, data)
            /\ last'.outcome = "created" ) =>
              LET r == Len(requests')
              IN  /\ r = Len(requests) + 1
                  /\ Cardinality(_payer_ids) > 1
                  /\ ~requests'[r].is_completed
                  /\ requests'[r].required_count = Cardinality(_payer_ids)
                  /\ Approvers(approvals'[r]) = {u}
                  /\ count(approvals'[r]) = 1 ]_vars

\* C19 witness: u2, one of three payers, has just asked for an edit.
C19_Witness ==
    /\ last = Outcome("request_edit", "created")
    /\ Cardinality(_payer_ids) = 3
    /\ LET r == Len(requests)
       IN  /\ r >= 1
           /\ requests[r].action = ACTION_EDIT
           /\ ~requests[r].is_completed
           /\ requests[r].required_count = 3
           /\ Approvers(approvals[r]) = {"u2"}

\* ---------------------------------------------------------------------- C20
\* The orders in which the users of S can call, each once.
Orders(S) ==
    { o \in [1..Cardinality(S) -> S] :
        \A i, j \in 1..Cardinality(S) : o[i] = o[j] => i = j }

\* The rows after the users of order o have called approve for action a, one
\* call after the other.
RECURSIVE RunApprove(_, _, _)
RunApprove(d, o, a) ==
    IF o = << >> THEN d ELSE RunApprove(approve(d, Head(o), a), Tail(o), a)

\* What the claim compares: the approval set and is_completed of request r
\* and the expense with its payer and participant rows.
Final(d, r) ==
    [approvers |-> Approvers(d.approvals[r]),
     is_completed |-> d.requests[r].is_completed,
     expense |-> d.expense, payers |-> d.payers, participants |-> d.participants]

\* The callers of S have not approved request r yet, they are no more than
\* the approvals it still needs, and an edit they complete passes validation.
WithinQuorum(r, S) ==
    LET n == count(approvals[r]) + Cardinality(S)
    IN  /\ S \cap Approvers(approvals[r]) = {}
        /\ n <= requests[r].required_count
        /\ ( /\ n = requests[r].required_count
             /\ requests[r].action = ACTION_EDIT )
             => CanUpdate(Instance, requests[r].payload, TRUE)

\* C20: for the pending request of an action and any set of payers calling
\* approve, every order of the calls ends in the same approval set, the same
\* is_completed and the same expense state.
C20_ApprovalCommutes ==
    \A a \in Actions :
        (expense.state = "live" /\ PendingRequests(a) # {}) =>
            LET r == Latest(PendingRequests(a))
            IN  \A S \in SUBSET _payer_ids : \A o1, o2 \in Orders(S) :
                    Final(RunApprove(Rows, o1, a), r) = Final(RunApprove(Rows, o2, a), r)

\* C20 amended: the same, for callers who have not approved the request yet,
\* are no more than the approvals it still needs and whose edit, if they
\* complete the request, passes validation.
C20_ApprovalCommutesAmended ==
    \A a \in Actions :
        (expense.state = "live" /\ PendingRequests(a) # {}) =>
            LET r == Latest(PendingRequests(a))
            IN  \A S \in SUBSET _payer_ids : WithinQuorum(r, S) =>
                    \A o1, o2 \in Orders(S) :
                        Final(RunApprove(Rows, o1, a), r) = Final(RunApprove(Rows, o2, a), r)

\* Two payers have yet to approve a pending edit request, and their calls, in
\* either order, complete it.
C20_Witness ==
    /\ expense.state = "live"
    /\ PendingRequests(ACTION_EDIT) # {}
    /\ LET r == Latest(PendingRequests(ACTION_EDIT))
       IN  \E S \in SUBSET _payer_ids :
               /\ Cardinality(S) = 2
               /\ WithinQuorum(r, S)
               /\ \A o \in Orders(S) :
                      /\ RunApprove(Rows, o, ACTION_EDIT).requests[r].is_completed
                      /\ Approvers(RunApprove(Rows, o, ACTION_EDIT).approvals[r])
                             = S \cup Approvers(approvals[r])

\* ---------------------------------------------------------------------- C21
\* C21. For every item of a call that has run, the item totals computed by
\* apply_itemized_mode_breakdown, _sum_items_total, _compute_itemized_owed_map
\* and ExpenseItem.total_minor are all round-half-up of quantity x
\* unit_price_minor.
C21_ItemTotalRoundHalfUp ==
    (alloc.pc \in {"stored", "failed"} /\ Has(alloc.data, "items")) =>
        \A i \in DOMAIN alloc.data.items :
            LET item == alloc.data.items[i]
            IN  /\ total_minor(item) = _round_minor(Product(item))
                /\ _sum_items_total(<< item >>) = _round_minor(Product(item))

\* ---------------------------------------------------------------------- C22
\* C22. For every item total and every non-empty list of weights,
\* _distribute_by_weights returns the per-user amounts that the weight branch
\* of _compute_itemized_owed_map computes.
C22_WeightBranchesAgree ==
    ( /\ alloc.pc = "returned"
      /\ alloc.split_type = "shares"
      /\ alloc.splits_payload # << >> ) =>
        alloc.out = weight_based(expense.total_amount_minor, alloc.splits_payload)

\* ---------------------------------------------------------------------- C23
\* C23. After a successful allocation every stored ExpensePayer row has
\* paid_amount_minor > 0 and every stored ExpenseParticipant row has
\* owed_amount_minor > 0.
C23_NoZeroRows ==
    alloc.pc = "stored" =>
        /\ \A u \in DOMAIN payers : payers[u] > 0
        /\ \A u \in DOMAIN participants : participants[u] > 0

\* ---------------------------------------------------------------------- C24
\* The rows a splits list stands for: the users with an amount > 0 on the
\* given side, each with that amount.
RowsAre(rows, splits, entries, side) ==
    /\ DOMAIN rows = { splits[i].user_id : i \in entries }
    /\ \A i \in entries : rows[splits[i].user_id] = splits[i][side]

\* The users named by the shares of a list of items.
ShareUsers(items_) ==
    UNION { { items_[i].shares[j].user : j \in DOMAIN items_[i].shares } :
              i \in DOMAIN items_ }

\* C24. After a successful TOTAL-mode update (PATCH or PUT) that supplies
\* splits, the payer and participant rows are exactly those of the new
\* splits; after a successful ITEMIZED update that supplies items and no
\* splits, the participant rows are exactly those computed from the new items
\* and the payer rows are unchanged.
C24_ReplaceSemantics ==
    [][ /\ (TotalMode /\ last'.outcome = "updated") =>
            \A u \in Users, data \in PatchInputs \cup PutInputs :
              ( /\ Has(data, "splits")
                /\ partial_update(u, data) \/ put_update(u, data) ) =>
                  /\ RowsAre(payers', data.splits, PayingEntries(data.splits),
                             "paid_amount_minor")
                  /\ RowsAre(participants', data.splits, OwingEntries(data.splits),
                             "owed_amount_minor")
        /\ ( /\ update_itemized
             /\ alloc'.pc = "stored"
             /\ Has(alloc.data, "items")
             /\ ~Has(alloc.data, "splits") ) =>
               /\ participants' = _compute_itemized_owed_map(alloc.data.items)
               /\ DOMAIN participants' = ShareUsers(alloc.data.items)
               /\ payers' = payers ]_vars

\* C24 witness: a PATCH of the ITEMIZED expense with items and no splits has
\* been stored; u2's old participant row is gone, u1's is the new items'
\* amount and the payer row is the old one.
C24_Witness ==
    /\ alloc.pc = "stored"
    /\ alloc.op = "update"
    /\ Has(alloc.data, "items")
    /\ ~Has(alloc.data, "splits")
    /\ ShareUsers(alloc.data.items) = {"u1"}
    /\ participants = _compute_itemized_owed_map(alloc.data.items)
    /\ DOMAIN participants = {"u1"}
    /\ DOMAIN OldParticipants = {"u1", "u2"}
    /\ payers = OldPayers

\* ---------------------------------------------------------------------- C25
\* C25. A call of apply_total_mode_breakdown or apply_itemized_mode_breakdown
\* that fails leaves the participant rows and the item rows with their
\* item-share rows exactly as they were before the call.
C25_FailedBreakdownKeepsRows ==
    [][ alloc'.pc = "failed" =>
          /\ participants' = participants
          /\ items' = items
          /\ payers' = payers ]_vars

\* C25 witness: 'equally' over no participants has failed, and the
\* participant rows from before the call are there.
C25_Witness ==
    /\ "split_type" \in DOMAIN alloc
    /\ alloc.pc = "failed"
    /\ alloc.split_type = "equally"
    /\ alloc.participants = << >>
    /\ last = Outcome("apply_total_mode_breakdown", "error")
    /\ participants = OldParticipants
    /\ OldParticipants # NoRows

\* ---------------------------------------------------------------------- C26
\* C26. A request that is completed is kept by every step: its row stays,
\* with is_completed true and the same action, payload and required_count,
\* and its approval rows stay the same.
C26_CompletedImmutable ==
    [][ \A r \in DOMAIN requests :
          (~requests[r].deleted /\ requests[r].is_completed) =>
              /\ requests'[r] = requests[r]
              /\ approvals'[r] = approvals[r] ]_vars

\* ---------------------------------------------------------------------- C27
\* C27. For each action, at most one request of the expense is pending.
C27_OnePendingPerAction ==
    \A a \in Actions : Cardinality(PendingRequests(a)) <= 1

\* ---------------------------------------------------------------------- C28
\* C28. When the atomic block of an approve call applies a delete or an
\* edit, every payer of the expense just before the application is among the
\* approvers of the request, the caller included.
C28_UnanimousConsent ==
    [][ \A c \in Calls :
          (approve_txn(c) /\ last'.outcome = "applied") =>
              _payer_ids \subseteq
                  Approvers(get_or_create(approvals[calls[c].req], calls[c].user)) ]_vars

\* ---------------------------------------------------------------------- C29
\* Request r is the most recently created pending request of action a.
NewestPending(r, a) ==
    /\ r \in DOMAIN requests
    /\ ~requests[r].deleted
    /\ requests[r].action = a
    /\ ~requests[r].is_completed
    /\ \A q \in DOMAIN requests :
          (~requests[q].deleted /\ requests[q].action = a /\ ~requests[q].is_completed)
              => q <= r

\* C29. The request an approve call takes up is the most recently created
\* pending request of the action given; up to there the call changes no
\* request and no approval. Its atomic block, unless it applies a delete,
\* adds at most the caller to the approvals of that request, leaves its
\* required_count, and leaves every other request and its approvals as they
\* are.
C29_ApproveFrame ==
    [][ /\ \A c \in Calls, u \in Users, a \in Actions \cup {"other"} :
              approve_lookup(c, u, a) =>
                  /\ requests' = requests
                  /\ approvals' = approvals
                  /\ calls'[c].pc = "txn" =>
                        /\ NewestPending(calls'[c].req, a)
                        /\ calls'[c].user = u
        /\ \A c \in Calls :
              ( /\ approve_txn(c)
                /\ ~( /\ last'.outcome = "applied"
                      /\ requests[calls[c].req].action = ACTION_DELETE ) ) =>
                  LET r == calls[c].req
                  IN  /\ \A q \in DOMAIN requests \ {r} :
                            /\ requests'[q] = requests[q]
                            /\ approvals'[q] = approvals[q]
                      /\ Approvers(approvals[r]) \subseteq Approvers(approvals'[r])
                      /\ Approvers(approvals'[r]) \subseteq
                            Approvers(approvals[r]) \cup {calls[c].user}
                      /\ requests'[r].required_count = requests[r].required_count
                      /\ requests'[r].action = requests[r].action
                      /\ requests'[r].payload = requests[r].payload ]_vars

\* C29 witness: two edit requests are pending, an approve call has recorded
\* u2 on the newer one, and the older one holds its requester's approval alone.
C29_Witness ==
    /\ last = Outcome("approve_txn", "pending")
    /\ Len(requests) = 2
    /\ NewestPending(2, ACTION_EDIT)
    /\ ~requests[1].is_completed /\ requests[1].action = ACTION_EDIT
    /\ Approvers(approvals[2]) = {"u1", "u2"}
    /\ Approvers(approvals[1]) = {"u1"}

\* ---------------------------------------------------------------------- C30
\* The atomic block of call c reaches quorum on an edit request whose stored
\* payload fails ExpenseDetailSerializer.validate against the expense the
\* call read.
InvalidAtQuorum(c) ==
    LET req == requests[calls[c].req]
    IN  /\ calls[c].pc = "txn"
        /\ ~req.deleted
        /\ req.action = ACTION_EDIT
        /\ count(get_or_create(approvals[calls[c].req], calls[c].user)) >= req.required_count
        /\ ~validate(req.payload, TRUE, calls[c].inst.total_amount_minor, TRUE)

\* C30. An approve call that reaches quorum on an edit request whose payload
\* fails validation fails, and nothing is changed: the caller's approval is
\* not recorded, no request is completed, and the expense and its payer and
\* participant rows are as before.
C30_InvalidAtQuorumChangesNothing ==
    [][ \A c \in Calls :
          (InvalidAtQuorum(c) /\ approve_txn(c)) =>
              /\ last' = Outcome("approve_txn", "invalid")
              /\ approvals' = approvals
              /\ requests' = requests
              /\ expense' = expense
              /\ payers' = payers
              /\ participants' = participants ]_vars

\* C30 witness: an approve call has just failed on validation, and the edit
\* request it would have completed is pending, one approval short of its
\* required_count, with a payload that fails validation against the expense.
C30_Witness ==
    /\ last = Outcome("approve_txn", "invalid")
    /\ expense.state = "live"
    /\ \E r \in DOMAIN requests :
          /\ NewestPending(r, ACTION_EDIT)
          /\ count(approvals[r]) = requests[r].required_count - 1
          /\ ~validate(requests[r].payload, TRUE, expense.total_amount_minor, TRUE)

====
